---- MODULE Spec2Model ----
(***************************************************************************)
(* Token-refresh-and-request pipeline of the Spotify backend:              *)
(*   backend/routers/tokens.py  store_spotify_tokens (credential upsert)   *)
(*   backend/utils/spotify.py   _refresh_spotify_token, make_spotify_request*)
(*   backend/routers/stats.py   the routes built on make_spotify_request   *)
(* Time is in seconds.  Every request is handled by a worker of Procs; the *)
(* workers interleave at the awaits and at the blocking HTTP calls.        *)
(***************************************************************************)
EXTENDS Integers, FiniteSets, Sequences, TLC

VARIABLES
    store,          \* rows of the user_tokens table (committed state)
    now,            \* the UTC clock, in seconds
    configured,     \* which of SPOTIFY_CLIENT_ID, SPOTIFY_CLIENT_SECRET the environment sets
    pc,             \* position of each worker in its handler
    req,            \* the request a worker handles: [route, item_type, user_id, method, phase]
    token_record,   \* _refresh_spotify_token: the ORM object loaded by the session
    new_token_data, \* _refresh_spotify_token: the authorization server's answer
    response,       \* make_spotify_request: the catalog API's answer
    sent,           \* requests sent by the current make_spotify_request call
    raised,         \* the HTTPException leaving make_spotify_request
    data,           \* the JSON make_spotify_request returned last to the route
                    \* (spotify_data, top_tracks_data, audio_features_data)
    track_ids,      \* get_vibe_analysis: the ids taken from the top tracks
    reply           \* what the route handler answers to its caller

vars == <<store, now, configured, pc, req, token_record, new_token_data,
          response, sent, raised, data, track_ids, reply>>

-----------------------------------------------------------------------------
(* Bounds of the model *)

\* the clock stops advancing here (seconds)
MaxNow == 1
\* longest items list the catalog API answers with
MaxItems == 3
\* longest audio_features list the catalog API answers with
MaxFeatures == 4

Procs == {"w1", "w2"}
Users == {"u1", "u2"}

\* payload.access_token values a frontend submits
SubmittedAccessTokens == {"a1"}
\* payload.refresh_token values; pydantic's str admits the empty string
SubmittedRefreshTokens == {"", "r1"}
\* access_token values the authorization server mints
MintedAccessTokens == {"m1", "m2"}
\* expires_in values (payload and authorization server), in seconds
ExpiresInChoices == {300, 301}
\* status codes of the authorization server
AuthStatuses == {200, 400}
\* status codes of the catalog API
CatalogStatuses == {200, 401, 429}
\* method arguments of make_spotify_request; the routes leave the default, GET
Methods == {"GET", "post", "DELETE"}

-----------------------------------------------------------------------------
(* Program constants *)

\* timedelta(minutes=5), in seconds
SkewSeconds == 300

None == [none |-> TRUE]
NoRequest == [route |-> "-", item_type |-> "-", user_id |-> "-", method |-> "-",
              phase |-> 0]
NoneSent == [auth |-> 0, catalog |-> 0]

\* routes of stats_router, and a direct use of the gateway
PassThroughRoutes == {"top", "vibe", "gateway"}
WrappedRoutes == {"recently-played", "profile", "audio-features"}
Routes == PassThroughRoutes \cup WrappedRoutes

HTTPException(status_code, detail) == [status_code |-> status_code, detail |-> detail]

-----------------------------------------------------------------------------
(* The user_tokens table *)

RowsOf(rows, user_id) == {row \in rows : row.id = user_id}

\* a row as written by one statement.  Two history fields: exp_for is the
\* access_token that expires_at was written together with, minted_with the
\* refresh token the access_token came with (submitted with it, or sent in the
\* refresh request that was answered with it)
NewRow(user_id, access_token, refresh_token, expires_at) ==
    [id |-> user_id, access_token |-> access_token,
     refresh_token |-> refresh_token, expires_at |-> expires_at,
     exp_for |-> access_token, minted_with |-> refresh_token]

\* INSERT without conflict handling
InsertOnly(rows, user_id, access_token, refresh_token, expires_at) ==
    rows \cup {NewRow(user_id, access_token, refresh_token, expires_at)}

\* insert(UserToken).values(...).on_conflict_do_update(index_elements=['id'], set_=...)
Upsert(rows, user_id, access_token, refresh_token, expires_at) ==
    IF RowsOf(rows, user_id) = {}
    THEN rows \cup {NewRow(user_id, access_token, refresh_token, expires_at)}
    ELSE {IF row.id = user_id
          THEN NewRow(user_id, access_token, refresh_token, expires_at)
          ELSE row : row \in rows}

\* a flush that writes access_token alone
FlushAccessTokenOnly(rows, record) ==
    {IF row.id = record.id
     THEN [row EXCEPT !.access_token = record.access_token]
     ELSE row : row \in rows}

\* db.commit(): the session flushes the two dirty attributes of token_record
\* in one UPDATE ... WHERE id = :id and commits
FlushAndCommit(rows, record) ==
    {IF row.id = record.id
     THEN [row EXCEPT !.access_token = record.access_token,
                      !.expires_at = record.expires_at,
                      !.exp_for = record.exp_for,
                      !.minted_with = record.minted_with]
     ELSE row : row \in rows}

-----------------------------------------------------------------------------
(* Pure helpers of _refresh_spotify_token and make_spotify_request *)

\* the comparison inverted
NeedsRefreshInverted(current_time, expires_at) ==
    current_time <= expires_at - SkewSeconds

\* the boundary left out
NeedsRefreshStrict(current_time, expires_at) ==
    current_time > expires_at - SkewSeconds

\* current_time >= expires_at - timedelta(minutes=5)
NeedsRefresh(current_time, expires_at) ==
    current_time >= expires_at - SkewSeconds

\* an empty refresh token passed on
RefreshTokenMissingNever(refresh_token) == FALSE

\* not token_record.refresh_token
RefreshTokenMissing(refresh_token) == refresh_token = ""

\* only server errors rejected
RefreshRejectedServerErrors(status_code) == status_code >= 500

\* response.status_code != 200
RefreshRejected(status_code) == status_code # 200

\* method.upper()
Upper(method) ==
    CASE method = "get" -> "GET"
      [] method = "post" -> "POST"
      [] method = "delete" -> "DELETE"
      [] OTHER -> method

\* response.raise_for_status(): HTTPError for 4xx and 5xx
RaisesForStatus(status_code) == status_code >= 400 /\ status_code < 600

\* the client secret is not looked at
CredentialsConfiguredIdOnly(environment) == environment.SPOTIFY_CLIENT_ID

\* not (not SPOTIFY_CLIENT_ID or not SPOTIFY_CLIENT_SECRET)
CredentialsConfigured(environment) ==
    environment.SPOTIFY_CLIENT_ID /\ environment.SPOTIFY_CLIENT_SECRET

\* what a route does with an HTTPException of make_spotify_request:
\* recently-played, profile and audio-features catch Exception and answer 500
RouteError(route, exc) ==
    IF route \in WrappedRoutes
    THEN HTTPException(500, "RouteError")
    ELSE exc

-----------------------------------------------------------------------------
(* JSON of the catalog API.  An object is a record, {} the record without a
   field, a list a sequence.  null is None where an object stands and Null
   where a string stands.  Audio-feature metrics are in hundredths. *)

Null == "null"
EmptyObject == <<>>

\* dict.get(key, default)
Get(object, key, default) == IF key \in DOMAIN object THEN object[key] ELSE default

\* truth value of a string or None: `if track.get('id')`
Truthy(value) == value # Null /\ value # ""

\* separator.join(strings)
RECURSIVE Join(_, _)
Join(separator, strings) ==
    IF strings = <<>> THEN ""
    ELSE IF Len(strings) = 1 THEN strings[1]
    ELSE strings[1] \o separator \o Join(separator, Tail(strings))

-----------------------------------------------------------------------------
(* backend/routers/stats.py: get_top_items *)

\* line 22: the item types get_top_items serves
ItemTypes == {"artists", "tracks"}

\* a request that reaches make_spotify_request
CallsGateway(request) == request.route = "top" => request.item_type \in ItemTypes

\* the list whose element 0 lines 50 and 60 take
Images(item_type, item) ==
    IF item_type = "tracks"
    THEN Get(Get(item, "album", EmptyObject), "images", <<EmptyObject>>)
    ELSE Get(item, "images", <<EmptyObject>>)

\* [0] of an empty list raises IndexError
RaisesIndexError(item_type, item) == Images(item_type, item) = <<>>

\* lines 42-63: the cleaned item of one upstream item
CleanedItem(item_type, item) ==
    IF item_type = "tracks"
    THEN [id |-> Get(item, "id", Null),
          name |-> Get(item, "name", Null),
          artists |-> LET artists == Get(item, "artists", <<>>)
                      IN  Join(", ", [i \in DOMAIN artists |-> artists[i].name]),
          image_url |-> Get(Images(item_type, item)[1], "url", Null)]
    ELSE [id |-> Get(item, "id", Null),
          name |-> Get(item, "name", Null),
          image_url |-> Get(Images(item_type, item)[1], "url", Null),
          genres |-> Get(item, "genres", <<>>)]

\* lines 38-66: the loop over spotify_data.get('items', []); the first item
\* that raises ends the handler, and the framework answers 500
GetTopItems(item_type, spotify_data) ==
    LET items == Get(spotify_data, "items", <<>>)
    IN  IF \E i \in DOMAIN items : RaisesIndexError(item_type, items[i])
        THEN HTTPException(500, "InternalServerError")
        ELSE [status_code |-> 200, detail |-> "OK",
              body |-> [i \in DOMAIN items |-> CleanedItem(item_type, items[i])]]

-----------------------------------------------------------------------------
(* backend/routers/stats.py: get_vibe_analysis *)

HasId(track) == Truthy(Get(track, "id", Null))

\* every item gives an id, whatever it is
TrackIdsUnfiltered(top_tracks_data) ==
    LET items == Get(top_tracks_data, "items", <<>>)
    IN  [i \in DOMAIN items |-> Get(items[i], "id", "")]

\* line 179: the ids of the items that have one
TrackIds(top_tracks_data) ==
    LET items == SelectSeq(Get(top_tracks_data, "items", <<>>), HasId)
    IN  [i \in DOMAIN items |-> items[i].id]

\* an empty id list is sent on to the audio-features call
NoTopTracksNever(ids) == FALSE

\* line 180: `if not track_ids`
NoTopTracks(ids) == ids = <<>>

IsFeature(f) == f # None

\* lines 189-191: the entries of audio_features that are not null
FeaturesList(audio_features_data) ==
    SelectSeq(Get(audio_features_data, "audio_features", <<>>), IsFeature)

\* sum(f[metric] for f in features_list)
RECURSIVE Sum(_, _)
Sum(features_list, metric) ==
    IF features_list = <<>> THEN 0
    ELSE features_list[1][metric] + Sum(Tail(features_list), metric)

\* the quotient cut off
RoundDown(numerator, denominator) == numerator \div denominator

\* round(numerator / denominator): the nearest integer, a tie goes to the
\* even one
Round(numerator, denominator) ==
    LET q == numerator \div denominator
        r == numerator % denominator
    IN  IF 2 * r < denominator THEN q
        ELSE IF 2 * r > denominator THEN q + 1
        ELSE IF q % 2 = 0 THEN q ELSE q + 1

\* lines 196-210; the metrics are in hundredths, so avg * 100 is the sum of
\* the metric over the number of tracks
VibeSummary(features_list) ==
    LET total_tracks == Len(features_list)
    IN  [time_range |-> "medium_term",
         tracks_analyzed |-> total_tracks,
         danceability |-> Round(Sum(features_list, "danceability"), total_tracks),
         energy |-> Round(Sum(features_list, "energy"), total_tracks),
         positivity |-> Round(Sum(features_list, "valence"), total_tracks),
         acousticness |-> Round(Sum(features_list, "acousticness"), total_tracks)]

\* the URL path make_spotify_request is called with (lines 30, 174, 185)
Endpoint(request) ==
    IF request.route = "top" THEN "/me/top/" \o request.item_type
    ELSE IF request.route = "vibe"
    THEN IF request.phase = 1 THEN "/me/top/tracks" ELSE "/audio-features"
    ELSE IF request.route = "recently-played" THEN "/me/player/recently-played"
    ELSE IF request.route = "audio-features" THEN "/audio-features/{track_id}"
    ELSE "/me"

-----------------------------------------------------------------------------
Init ==
    /\ store = {}
    /\ now = 0
    /\ configured \in [SPOTIFY_CLIENT_ID : BOOLEAN, SPOTIFY_CLIENT_SECRET : BOOLEAN]
    /\ pc = [p \in Procs |-> "idle"]
    /\ req = [p \in Procs |-> NoRequest]
    /\ token_record = [p \in Procs |-> None]
    /\ new_token_data = [p \in Procs |-> None]
    /\ response = [p \in Procs |-> None]
    /\ sent = [p \in Procs |-> NoneSent]
    /\ raised = [p \in Procs |-> None]
    /\ data = [p \in Procs |-> None]
    /\ track_ids = [p \in Procs |-> <<>>]
    /\ reply = [p \in Procs |-> None]

\* the clock advances by a second
Tick ==
    /\ now < MaxNow
    /\ now' = now + 1
    /\ UNCHANGED <<store, configured, pc, req, token_record, new_token_data,
                   response, sent, raised, data, track_ids, reply>>

\* make_spotify_request fails: the exception reaches the route, which answers
Fail(p, exc) ==
    /\ pc' = [pc EXCEPT ![p] = "failed"]
    /\ raised' = [raised EXCEPT ![p] = exc]
    /\ reply' = [reply EXCEPT ![p] = RouteError(req[p].route, exc)]

\* POST /api/tokens/spotify; the payload passed SpotifyTokenPayload validation
StoreSpotifyTokens(user_id, payload) ==
    /\ DOMAIN payload = {"access_token", "refresh_token", "expires_in"}
    /\ store' = Upsert(store, user_id, payload.access_token, payload.refresh_token,
                       now + payload.expires_in)
    /\ UNCHANGED <<now, configured, pc, req, token_record, new_token_data,
                   response, sent, raised, data, track_ids, reply>>

\* a route handler calls make_spotify_request (lines 83-91): the configuration
\* check, then the query of _refresh_spotify_token is sent to the database
EnterGateway(p, request) ==
    /\ req' = [req EXCEPT ![p] = request]
    /\ token_record' = [token_record EXCEPT ![p] = None]
    /\ new_token_data' = [new_token_data EXCEPT ![p] = None]
    /\ response' = [response EXCEPT ![p] = None]
    /\ sent' = [sent EXCEPT ![p] = NoneSent]
    /\ data' = [data EXCEPT ![p] = None]
    /\ track_ids' = [track_ids EXCEPT ![p] = <<>>]
    /\ IF ~CredentialsConfigured(configured)
       THEN /\ pc' = [pc EXCEPT ![p] = "failed"]
            /\ raised' = [raised EXCEPT ![p] = HTTPException(500, "ConfigurationError")]
            /\ reply' = [reply EXCEPT ![p] =
                           RouteError(request.route, HTTPException(500, "ConfigurationError"))]
       ELSE /\ pc' = [pc EXCEPT ![p] = "load"]
            /\ UNCHANGED <<raised, reply>>

\* a request arrives at one of the routes of stats_router, or make_spotify_request
\* is called with a method of its own; get_top_items lines 22-23 turn down an
\* item_type other than artists and tracks before anything else
StartRequest(p, route, item_type, user_id, method) ==
    /\ pc[p] = "idle"
    /\ route = "gateway" \/ method = "GET"
    /\ (route = "top") = (item_type # "-")
    /\ LET request == [route |-> route, item_type |-> item_type, user_id |-> user_id,
                       method |-> method, phase |-> 1]
       IN  IF CallsGateway(request)
           THEN EnterGateway(p, request)
           ELSE /\ req' = [req EXCEPT ![p] = request]
                /\ pc' = [pc EXCEPT ![p] = "failed"]
                /\ reply' = [reply EXCEPT ![p] = HTTPException(400, "InvalidItemType")]
                /\ UNCHANGED <<token_record, new_token_data, response, sent, raised,
                               data, track_ids>>
    /\ UNCHANGED <<store, now, configured>>

\* the 405 raised inside the try block is caught there and mapped like a
\* transport failure
SendCatalogRequestCaught(p, record) ==
    IF Upper(req[p].method) \in {"GET", "POST"}
    THEN /\ pc' = [pc EXCEPT ![p] = "catalog_wait"]
         /\ sent' = [sent EXCEPT ![p].catalog = @ + 1]
         /\ UNCHANGED <<raised, reply>>
    ELSE /\ Fail(p, HTTPException(500, "TransportError"))
         /\ UNCHANGED sent

\* make_spotify_request lines 94-107: the catalog request is sent with the
\* access token of `record`, unless the method is neither GET nor POST
SendCatalogRequest(p, record) ==
    IF Upper(req[p].method) \in {"GET", "POST"}
    THEN /\ pc' = [pc EXCEPT ![p] = "catalog_wait"]
         /\ sent' = [sent EXCEPT ![p].catalog = @ + 1]
         /\ UNCHANGED <<raised, reply>>
    ELSE /\ Fail(p, HTTPException(405, "UnsupportedMethod"))
         /\ UNCHANGED sent

\* single flight: while another worker refreshes the same user's token, the
\* loaded record is used as it is
CheckExpirySingleFlight(p, record) ==
    /\ token_record' = [token_record EXCEPT ![p] = record]
    /\ IF /\ NeedsRefresh(now, record.expires_at)
          /\ ~\E q \in Procs \ {p} :
                pc[q] \in {"auth_wait", "commit"} /\ req[q].user_id = record.id
       THEN IF RefreshTokenMissing(record.refresh_token)
            THEN /\ Fail(p, HTTPException(400, "MissingRefreshToken"))
                 /\ UNCHANGED sent
            ELSE /\ pc' = [pc EXCEPT ![p] = "auth_wait"]
                 /\ sent' = [sent EXCEPT ![p].auth = @ + 1]
                 /\ UNCHANGED <<raised, reply>>
       ELSE SendCatalogRequest(p, record)

\* _refresh_spotify_token lines 34-56 and 73-76 for a loaded record: the
\* expiry is compared with the clock and, when a refresh is due, the refresh
\* request is sent; a valid token goes straight to the catalog request
CheckExpiry(p, record) ==
    /\ token_record' = [token_record EXCEPT ![p] = record]
    /\ IF NeedsRefresh(now, record.expires_at)
       THEN IF RefreshTokenMissing(record.refresh_token)
            THEN /\ Fail(p, HTTPException(400, "MissingRefreshToken"))
                 /\ UNCHANGED sent
            ELSE /\ pc' = [pc EXCEPT ![p] = "auth_wait"]
                 /\ sent' = [sent EXCEPT ![p].auth = @ + 1]
                 /\ UNCHANGED <<raised, reply>>
       ELSE SendCatalogRequest(p, record)

\* a missing row gets an empty record made for it
LoadRecordOrCreate(p) ==
    /\ pc[p] = "load"
    /\ LET user_id == req[p].user_id
           rows == RowsOf(store, user_id)
           made == NewRow(user_id, "", "", now)
       IN  IF rows = {}
           THEN /\ store' = store \cup {made}
                /\ CheckExpiry(p, made)
           ELSE /\ store' = store
                /\ CheckExpiry(p, CHOOSE row \in rows : TRUE)
    /\ UNCHANGED <<now, configured, req, new_token_data, response, data, track_ids>>

\* _refresh_spotify_token lines 23-56: the record is loaded (no row: 404) and
\* its expiry checked
LoadRecord(p) ==
    /\ pc[p] = "load"
    /\ LET rows == RowsOf(store, req[p].user_id)
       IN  IF rows = {}
           THEN /\ Fail(p, HTTPException(404, "NotFound"))
                /\ UNCHANGED <<token_record, sent>>
           ELSE CheckExpiry(p, CHOOSE row \in rows : TRUE)
    /\ UNCHANGED <<store, now, configured, req, new_token_data, response, data,
                   track_ids>>

\* _refresh_spotify_token lines 56-67: the authorization server answers; a
\* status other than 200 is raised, otherwise the new access token and its
\* expiry are set on token_record.  The server mints a token other than the
\* one it replaces.
AuthResponse(p, answer) ==
    /\ pc[p] = "auth_wait"
    /\ answer.access_token # token_record[p].access_token
    /\ new_token_data' = [new_token_data EXCEPT ![p] = answer]
    /\ IF RefreshRejected(answer.status_code)
       THEN /\ Fail(p, HTTPException(answer.status_code, "UpstreamAuthError"))
            /\ UNCHANGED token_record
       ELSE /\ token_record' = [token_record EXCEPT ![p] =
                                  [@ EXCEPT !.access_token = answer.access_token,
                                            !.expires_at = now + answer.expires_in,
                                            !.exp_for = answer.access_token,
                                            !.minted_with = token_record[p].refresh_token]]
            /\ pc' = [pc EXCEPT ![p] = "commit"]
            /\ UNCHANGED <<raised, reply>>
    /\ UNCHANGED <<store, now, configured, req, response, sent, data, track_ids>>

\* _refresh_spotify_token line 70: await db.commit()
Commit(p) ==
    /\ pc[p] = "commit"
    /\ store' = FlushAndCommit(store, token_record[p])
    /\ pc' = [pc EXCEPT ![p] = "refresh"]
    /\ UNCHANGED <<now, configured, req, token_record, new_token_data, response,
                   sent, raised, data, track_ids, reply>>

\* _refresh_spotify_token line 71, await db.refresh(token_record): the row is
\* read again; then the record is returned and the catalog request is sent
RefreshRecord(p) ==
    /\ pc[p] = "refresh"
    /\ LET record == CHOOSE row \in RowsOf(store, token_record[p].id) : TRUE
       IN  /\ token_record' = [token_record EXCEPT ![p] = record]
           /\ SendCatalogRequest(p, record)
    /\ UNCHANGED <<store, now, configured, req, new_token_data, response, data,
                   track_ids>>
\* the catalog request is sent again after a 401
AfterUnauthorizedRetry(p) ==
    /\ pc' = [pc EXCEPT ![p] = "catalog_wait"]
    /\ sent' = [sent EXCEPT ![p].catalog = @ + 1]
    /\ UNCHANGED <<raised, reply>>

\* make_spotify_request lines 111-114: a 401 is raised as "Invalid token"
AfterUnauthorized(p) ==
    /\ Fail(p, HTTPException(401, "InvalidToken"))
    /\ UNCHANGED sent

\* make_spotify_request lines 103-131 and the rest of the route handler: the
\* catalog API answers with `outcome` and, when the status is no error, the
\* JSON `body`, which the route turns into its answer
CatalogResponse(p, outcome, body) ==
    /\ pc[p] = "catalog_wait"
    /\ response' = [response EXCEPT ![p] = outcome]
    \* the record and the grant are not read again
    /\ token_record' = [token_record EXCEPT ![p] = None]
    /\ new_token_data' = [new_token_data EXCEPT ![p] = None]
    /\ IF ~outcome.received
       THEN /\ Fail(p, HTTPException(500, "TransportError"))
            /\ UNCHANGED <<req, sent, data, track_ids>>
       ELSE IF outcome.status_code = 401
       THEN /\ AfterUnauthorized(p)
            /\ UNCHANGED <<req, data, track_ids>>
       ELSE IF RaisesForStatus(outcome.status_code)
       THEN /\ Fail(p, HTTPException(outcome.status_code, "UpstreamError"))
            /\ UNCHANGED <<req, sent, data, track_ids>>
       ELSE \* line 117: return response.json()
            /\ data' = [data EXCEPT ![p] = body]
            /\ IF req[p].route = "vibe" /\ req[p].phase = 1
               THEN \* get_vibe_analysis lines 179-187
                    /\ track_ids' = [track_ids EXCEPT ![p] = TrackIds(body)]
                    /\ IF NoTopTracks(TrackIds(body))
                       THEN /\ pc' = [pc EXCEPT ![p] = "done"]
                            /\ reply' = [reply EXCEPT ![p] =
                                           [status_code |-> 200, detail |-> "NoData",
                                            body |-> [message |-> "NoTopTracks"]]]
                            /\ UNCHANGED <<req, sent, raised>>
                       ELSE /\ pc' = [pc EXCEPT ![p] = "load"]
                            /\ req' = [req EXCEPT ![p].phase = 2]
                            /\ sent' = [sent EXCEPT ![p] = NoneSent]
                            /\ UNCHANGED <<raised, reply>>
               ELSE IF req[p].route = "vibe"
               THEN \* get_vibe_analysis lines 189-210
                    /\ IF FeaturesList(body) = <<>>
                       THEN /\ pc' = [pc EXCEPT ![p] = "failed"]
                            /\ reply' = [reply EXCEPT ![p] =
                                           HTTPException(404, "NoFeaturesAvailable")]
                       ELSE /\ pc' = [pc EXCEPT ![p] = "done"]
                            /\ reply' = [reply EXCEPT ![p] =
                                           [status_code |-> 200, detail |-> "OK",
                                            body |-> VibeSummary(FeaturesList(body))]]
                    /\ UNCHANGED <<req, sent, raised, track_ids>>
               ELSE IF req[p].route = "top"
               THEN \* get_top_items lines 38-66
                    /\ LET result == GetTopItems(req[p].item_type, body)
                       IN  /\ pc' = [pc EXCEPT ![p] =
                                        IF result.status_code = 200 THEN "done"
                                        ELSE "failed"]
                           /\ reply' = [reply EXCEPT ![p] = result]
                    /\ UNCHANGED <<req, sent, raised, track_ids>>
               ELSE \* the other routes return the JSON as it is
                    /\ pc' = [pc EXCEPT ![p] = "done"]
                    /\ reply' = [reply EXCEPT ![p] =
                                   [status_code |-> 200, detail |-> "OK", body |-> body]]
                    /\ UNCHANGED <<req, sent, raised, track_ids>>
    /\ UNCHANGED <<store, now, configured>>

\* the answer is delivered and the worker is free again
Return(p) ==
    /\ pc[p] \in {"done", "failed"}
    /\ pc' = [pc EXCEPT ![p] = "idle"]
    /\ req' = [req EXCEPT ![p] = NoRequest]
    /\ token_record' = [token_record EXCEPT ![p] = None]
    /\ new_token_data' = [new_token_data EXCEPT ![p] = None]
    /\ response' = [response EXCEPT ![p] = None]
    /\ sent' = [sent EXCEPT ![p] = NoneSent]
    /\ raised' = [raised EXCEPT ![p] = None]
    /\ data' = [data EXCEPT ![p] = None]
    /\ track_ids' = [track_ids EXCEPT ![p] = <<>>]
    /\ reply' = [reply EXCEPT ![p] = None]
    /\ UNCHANGED <<store, now, configured>>

Payloads ==
    [access_token : SubmittedAccessTokens, refresh_token : SubmittedRefreshTokens,
     expires_in : ExpiresInChoices]
    \cup [access_token : SubmittedAccessTokens, expires_in : ExpiresInChoices]

\* answers of the authorization server: a token grant with status 200, or an
\* error status whose body holds no token
AuthAnswers ==
    [status_code : {200}, access_token : MintedAccessTokens, expires_in : ExpiresInChoices]
    \cup [status_code : AuthStatuses \ {200}, access_token : {""}, expires_in : {0}]

\* submissions after the provider rotated the refresh token
RotatedPayloads ==
    [access_token : SubmittedAccessTokens, refresh_token : {"r1", "r2"},
     expires_in : ExpiresInChoices]

CatalogOutcomes ==
    [received : {TRUE}, status_code : CatalogStatuses]
    \cup {[received |-> FALSE, status_code |-> 0]}

\* a submission whose token is valid at time 0 and due for a refresh at time 1
FreshPayloads ==
    [access_token : SubmittedAccessTokens, refresh_token : {"r1"}, expires_in : {301}]

SeqsUpTo(S, n) == UNION {[1..k -> S] : k \in 0..n}

Endpoints ==
    {"/me/top/tracks", "/me/top/artists", "/audio-features",
     "/audio-features/{track_id}", "/me/player/recently-played", "/me"}

\* track objects of /me/top/tracks: complete; without artists; with an empty
\* image list; with an album that has no image list; with nothing but an id
TrackItems ==
    {[id |-> "t1", name |-> "n1", artists |-> <<[name |-> "A"], [name |-> "B"]>>,
      album |-> [images |-> <<[url |-> "u1"], [url |-> "u2"]>>]],
     [id |-> "t2", name |-> "n2", artists |-> <<>>,
      album |-> [images |-> <<[url |-> "u2"]>>]],
     [id |-> "t3", name |-> "n3", artists |-> <<[name |-> "A"]>>,
      album |-> [images |-> <<>>]],
     [id |-> "t4", name |-> "n4", artists |-> <<[name |-> "B"]>>,
      album |-> EmptyObject],
     [id |-> "t5"]}

\* artist objects of /me/top/artists: complete; with an empty image list;
\* with nothing but an id and a name
ArtistItems ==
    {[id |-> "ar1", name |-> "A", images |-> <<[url |-> "u1"], [url |-> "u2"]>>,
      genres |-> <<"rock", "pop">>],
     [id |-> "ar2", name |-> "B", images |-> <<>>, genres |-> <<>>],
     [id |-> "ar3", name |-> "C"]}

\* track objects as get_vibe_analysis reads them: with an id, with an empty
\* id, without an id
VibeTrackItems == {[id |-> "t1"], [id |-> ""], [name |-> "n1"]}

\* audio-feature objects: the tracks of the worked example
Features ==
    {[danceability |-> 20, energy |-> 50, valence |-> 100, acousticness |-> 10],
     [danceability |-> 40, energy |-> 50, valence |-> 0, acousticness |-> 10],
     [danceability |-> 60, energy |-> 50, valence |-> 50, acousticness |-> 10]}

ItemsBodies(items) == {[items |-> s] : s \in SeqsUpTo(items, MaxItems)} \cup {EmptyObject}

FeatureBodies ==
    {[audio_features |-> s] : s \in SeqsUpTo(Features \cup {None}, MaxFeatures)}
    \cup {EmptyObject}

\* what each endpoint answers: {} everywhere
EmptyBodies == [e \in Endpoints |-> {EmptyObject}]

\* no track or one track, no feature or one feature
SmallBodies ==
    [e \in Endpoints |->
        IF e = "/me/top/tracks" THEN {[items |-> <<>>], [items |-> <<[id |-> "t1"]>>]}
        ELSE IF e = "/audio-features"
        THEN {[audio_features |-> <<None>>],
              [audio_features |-> <<CHOOSE f \in Features : f.danceability = 20>>]}
        ELSE {EmptyObject}]

\* the item lists of the top endpoints
TopBodies ==
    [e \in Endpoints |->
        IF e = "/me/top/tracks" THEN ItemsBodies(TrackItems)
        ELSE IF e = "/me/top/artists" THEN ItemsBodies(ArtistItems)
        ELSE {EmptyObject}]

\* the track lists and the audio-feature lists get_vibe_analysis reads
VibeBodies ==
    [e \in Endpoints |->
        IF e = "/me/top/tracks" THEN ItemsBodies(VibeTrackItems)
        ELSE IF e = "/audio-features" THEN FeatureBodies
        ELSE {EmptyObject}]

\* the bodies the endpoint of `request` answers with; the JSON of an error
\* answer is read by nobody
BodiesFor(bodies, request, outcome) ==
    IF ~outcome.received \/ RaisesForStatus(outcome.status_code) THEN {EmptyObject}
    ELSE IF Endpoint(request) \in DOMAIN bodies THEN bodies[Endpoint(request)]
    ELSE {}

\* the steps of the system when requests for `users` arrive at `routes` (top
\* with `item_types`, the gateway itself with `methods`) and are handled by
\* `workers`, the frontend submits `payloads` and the catalog API answers
\* with `bodies`
Step(workers, users, routes, item_types, methods, payloads, bodies) ==
    \/ Tick
    \/ \E user_id \in users, payload \in payloads : StoreSpotifyTokens(user_id, payload)
    \/ \E p \in workers, route \in routes, item_type \in item_types \cup {"-"},
          user_id \in users, method \in methods :
          StartRequest(p, route, item_type, user_id, method)
    \/ \E p \in workers : LoadRecord(p)
    \/ \E p \in workers, answer \in AuthAnswers : AuthResponse(p, answer)
    \/ \E p \in workers : Commit(p)
    \/ \E p \in workers : RefreshRecord(p)
    \/ \E p \in workers, outcome \in CatalogOutcomes :
          \E body \in BodiesFor(bodies, req[p], outcome) : CatalogResponse(p, outcome, body)
    \/ \E p \in workers : Return(p)

\* concurrent requests of one user at one route
Next == Step(Procs, {"u1"}, {"top"}, {"tracks"}, {"GET"}, Payloads, EmptyBodies)
Spec == Init /\ [][Next]_vars

\* one worker, every route and method, several users
NextRoutes ==
    Step({"w1"}, Users, Routes, {"tracks", "albums"}, Methods, Payloads, SmallBodies)
SpecRoutes == Init /\ [][NextRoutes]_vars

\* concurrent requests of one user while the frontend submits rotated tokens
NextRotation ==
    Step(Procs, {"u1"}, {"top"}, {"tracks"}, {"GET"}, RotatedPayloads, EmptyBodies)
SpecRotation == Init /\ [][NextRotation]_vars

\* one worker serves the top route with every item list
NextTop ==
    Step({"w1"}, {"u1"}, {"top"}, {"tracks", "artists", "albums"}, {"GET"},
         FreshPayloads, TopBodies)
SpecTop == Init /\ [][NextTop]_vars

\* one worker serves the vibe route with every track list and feature list
NextVibe == Step({"w1"}, {"u1"}, {"vibe"}, {}, {"GET"}, FreshPayloads, VibeBodies)
SpecVibe == Init /\ [][NextVibe]_vars
-----------------------------------------------------------------------------
(* Vocabulary of the properties *)

\* worker p takes the step that leaves position `at`
Leaves(p, at) == pc[p] = at /\ pc'[p] # at

\* the stored record of the user whose request worker p handles
StoredFor(p) == RowsOf(store, req[p].user_id)

UniquePerUser(rows) == \A r1, r2 \in rows : r1.id = r2.id => r1 = r2

\* the catalog API answered worker p's request with success in this step
Answered(p) ==
    /\ Leaves(p, "catalog_wait")
    /\ response'[p].received
    /\ ~RaisesForStatus(response'[p].status_code)

\* the sum of `metric` over the entries of `entries` at `indices`
RECURSIVE Total(_, _, _)
Total(entries, indices, metric) ==
    IF indices = {} THEN 0
    ELSE LET i == CHOOSE i \in indices : TRUE
         IN  entries[i][metric] + Total(entries, indices \ {i}, metric)

\* k is an integer nearest to numerator / denominator
IsNearest(k, numerator, denominator) ==
    /\ 2 * (k * denominator - numerator) <= denominator
    /\ 2 * (numerator - k * denominator) <= denominator

\* the audio features of the worked example: danceability 0.2, 0.4, 0.6,
\* energy 0.5 each, valence 1.0, 0.0, 0.5, acousticness 0.1 each
ExampleFeatures ==
    {[danceability |-> 20, energy |-> 50, valence |-> 100, acousticness |-> 10],
     [danceability |-> 40, energy |-> 50, valence |-> 0, acousticness |-> 10],
     [danceability |-> 60, energy |-> 50, valence |-> 50, acousticness |-> 10]}

HasRefreshToken(rows, user_id) ==
    \E row \in RowsOf(rows, user_id) : row.refresh_token # ""

-----------------------------------------------------------------------------
(* C1: a stored record that expires more than 5 minutes after the current
   time makes _refresh_spotify_token send no request to the authorization
   server and return the record as stored, the store unchanged. *)
C1_ValidTokenReturnedUnchanged ==
    [][\A p \in Procs :
          (/\ Leaves(p, "load")
           /\ \E row \in StoredFor(p) : row.expires_at > now + SkewSeconds)
          => /\ sent'[p].auth = 0
             /\ pc'[p] # "auth_wait"
             /\ store' = store
             /\ token_record'[p] \in StoredFor(p)]_vars

\* a worker sent the catalog request with a record, still stored, that
\* expires more than 5 minutes from now, and sent no refresh request
C1_Witness ==
    \E p \in Procs :
        /\ pc[p] = "catalog_wait"
        /\ sent[p].auth = 0
        /\ token_record[p] \in store
        /\ token_record[p].expires_at > now + SkewSeconds

(* C2: a stored record with a refresh token that expires at or before
   now + 5 minutes (the boundary included) makes _refresh_spotify_token send
   exactly one refresh request; when it succeeds the record takes the
   returned access_token and now + expires_in, the commit stores both, and
   the stored refresh_token is left as it is. *)
C2_ExpiringTokenRefreshedOnce ==
    [][\A p \in Procs :
          /\ (/\ Leaves(p, "load")
              /\ \E row \in StoredFor(p) :
                    row.expires_at <= now + SkewSeconds /\ row.refresh_token # "")
             => pc'[p] = "auth_wait" /\ sent'[p].auth = 1
          /\ (Leaves(p, "auth_wait") /\ new_token_data'[p].status_code = 200)
             => /\ pc'[p] = "commit"
                /\ sent'[p].auth = 1
                /\ token_record'[p].access_token = new_token_data'[p].access_token
                /\ token_record'[p].expires_at = now + new_token_data'[p].expires_in
                /\ token_record'[p].refresh_token = token_record[p].refresh_token
                /\ store' = store
          /\ Leaves(p, "commit")
             => /\ sent'[p].auth = 1
                /\ \A row \in StoredFor(p) :
                      [row EXCEPT !.access_token = token_record[p].access_token,
                                  !.expires_at = token_record[p].expires_at,
                                  !.exp_for = token_record[p].exp_for,
                                  !.minted_with = token_record[p].minted_with]
                         \in RowsOf(store', req[p].user_id)
                /\ \A row \in RowsOf(store', req[p].user_id) :
                      /\ row.access_token = new_token_data[p].access_token
                      /\ row.expires_at = token_record[p].expires_at
                      /\ \E old \in StoredFor(p) : old.refresh_token = row.refresh_token
                /\ pc'[p] \notin {"auth_wait", "load"}]_vars

\* a refresh sent exactly at the boundary was granted and committed: the
\* stored row holds the granted token and the expiry computed from the grant
C2_Witness ==
    \E p \in Procs :
        /\ pc[p] = "refresh"
        /\ sent[p].auth = 1
        /\ \E row \in StoredFor(p) :
              /\ row.access_token = new_token_data[p].access_token
              /\ row.access_token \in MintedAccessTokens
              /\ row.expires_at = now + new_token_data[p].expires_in
              /\ row.refresh_token # ""

(* C3: when the authorization server answers the refresh request with a
   status other than 200, _refresh_spotify_token raises UpstreamAuthError
   with that status, and no step of the call, from the load to the failure,
   writes to the store. *)
C3_RejectedRefreshLeavesStore ==
    [][\A p \in Procs :
          /\ Leaves(p, "load") => store' = store
          /\ Leaves(p, "auth_wait")
             => /\ store' = store
                /\ new_token_data'[p].status_code # 200
                   => /\ pc'[p] = "failed"
                      /\ raised'[p] = HTTPException(new_token_data'[p].status_code,
                                                    "UpstreamAuthError")
                      /\ token_record'[p] = token_record[p]]_vars

\* a refresh was rejected with 400: the call failed with that status and the
\* stored record is still the one that was loaded
C3_Witness ==
    \E p \in Procs :
        /\ pc[p] = "failed"
        /\ new_token_data[p] # None
        /\ new_token_data[p].status_code = 400
        /\ raised[p] = HTTPException(400, "UpstreamAuthError")
        /\ token_record[p] \in store
(* C4: after any credential submissions and refreshes the store holds at most
   one record per user id; a submission for a user replaces whatever record
   the user had by the one record made of the submitted access_token,
   refresh_token and now + expires_in, and touches no other user's record. *)
C4_OneRecordPerUser ==
    [][/\ UniquePerUser(store')
       /\ (store' # store /\ pc' = pc)
          => \E user_id \in Users, payload \in Payloads :
                /\ DOMAIN payload = {"access_token", "refresh_token", "expires_in"}
                /\ RowsOf(store', user_id) =
                      {NewRow(user_id, payload.access_token, payload.refresh_token,
                              now + payload.expires_in)}
                /\ store' \ RowsOf(store', user_id) = store \ RowsOf(store, user_id)]_vars

\* both users have a record, and a worker still holds a refreshed record of a
\* user whose stored record has since been replaced by a submission
C4_Witness ==
    /\ \A user_id \in Users : RowsOf(store, user_id) # {}
    /\ \E p \in Procs :
          /\ pc[p] = "catalog_wait"
          /\ token_record[p].access_token \in MintedAccessTokens
          /\ \E row \in StoredFor(p) : row.access_token \in SubmittedAccessTokens

(* C5: once a user's record holds a non-empty refresh_token it holds a
   non-empty refresh_token in every later state. *)
C5_RefreshTokenNeverEmptied ==
    [][\A user_id \in Users :
          HasRefreshToken(store, user_id) => HasRefreshToken(store', user_id)]_vars

(* C6: one call of make_spotify_request sends at most one refresh request and
   at most one catalog request; a 401 of the catalog API ends the call with
   the error, after that one catalog request, with no refresh forced by it. *)
C6_NoRetry ==
    \A p \in Procs :
        /\ sent[p].auth <= 1
        /\ sent[p].catalog <= 1
        /\ (response[p] # None /\ response[p].received /\ response[p].status_code = 401)
           => /\ pc[p] = "failed"
              /\ raised[p] = HTTPException(401, "InvalidToken")
              /\ sent[p].catalog = 1

\* the token looked valid (no refresh request), the catalog API answered 401,
\* and the call failed after its single catalog request
C6_Witness ==
    \E p \in Procs :
        /\ pc[p] = "failed"
        /\ response[p] # None
        /\ response[p].status_code = 401
        /\ sent[p] = [auth |-> 0, catalog |-> 1]

(* C7: on every route a non-2xx answer of the catalog API reaches the caller
   with the upstream's status code; no answer at all reaches the caller as
   500, and an answer that was received is never turned into a 500. *)
C7_UpstreamStatusPassedThrough ==
    \A p \in Procs :
        (pc[p] = "failed" /\ response[p] # None)
        => /\ (response[p].received /\ RaisesForStatus(response[p].status_code))
              => reply[p].status_code = response[p].status_code
           /\ ~response[p].received => reply[p].status_code = 500
           /\ (response[p].received /\ reply[p].status_code = 500)
              => response[p].status_code = 500

(* C8: every record a reader can load has an access_token and an expires_at
   that were written together: the two fields a refresh writes become
   visible at its commit, both or neither. *)
C8_TokenAndExpiryTogether ==
    /\ \A row \in store : row.exp_for = row.access_token
    /\ \A p \in Procs :
          token_record[p] # None => token_record[p].exp_for = token_record[p].access_token

\* while one worker has committed its refresh, the other worker has loaded
\* the committed record: it read the granted token with the expiry of the grant
C8_Witness ==
    \E p, q \in Procs :
        /\ p # q
        /\ pc[q] = "refresh"
        /\ pc[p] = "catalog_wait"
        /\ sent[p].auth = 0
        /\ token_record[p].access_token = new_token_data[q].access_token
        /\ token_record[p].expires_at = token_record[q].expires_at
        /\ token_record[p] \in store

(* C9: when a refresh is due (expires_at at or before now + 5 minutes) and
   the stored record has no refresh token, _refresh_spotify_token raises
   MissingRefreshToken, having sent no request and written nothing. *)
C9_MissingRefreshToken ==
    [][\A p \in Procs :
          (/\ Leaves(p, "load")
           /\ \E row \in StoredFor(p) :
                 row.expires_at <= now + SkewSeconds /\ row.refresh_token = "")
          => /\ pc'[p] = "failed"
             /\ raised'[p] = HTTPException(400, "MissingRefreshToken")
             /\ sent'[p] = NoneSent
             /\ store' = store]_vars

\* a call failed with MissingRefreshToken on a stored record that is due and
\* has an empty refresh token; nothing was sent
C9_Witness ==
    \E p \in Procs :
        /\ pc[p] = "failed"
        /\ raised[p] = HTTPException(400, "MissingRefreshToken")
        /\ sent[p] = NoneSent
        /\ token_record[p] \in store
        /\ token_record[p].refresh_token = ""
        /\ token_record[p].expires_at <= now + SkewSeconds

(* C10: for a user id with no stored record _refresh_spotify_token raises
   NotFound; the make_spotify_request call around it sends no refresh request
   and no catalog request, and no record is created. *)
C10_NotFound ==
    [][\A p \in Procs :
          (Leaves(p, "load") /\ StoredFor(p) = {})
          => /\ pc'[p] = "failed"
             /\ raised'[p] = HTTPException(404, "NotFound")
             /\ sent'[p] = NoneSent
             /\ store' = store]_vars

\* a call for a user without a record failed with NotFound while another
\* user has a record; nothing was sent and the user still has no record
C10_Witness ==
    \E p \in Procs :
        /\ pc[p] = "failed"
        /\ raised[p] = HTTPException(404, "NotFound")
        /\ sent[p] = NoneSent
        /\ StoredFor(p) = {}
        /\ store # {}

(* C11: a make_spotify_request call whose method is neither GET nor POST
   sends no catalog request; once the token is in hand it fails with
   UnsupportedMethod (405), and that error leaves the call as it is, never as
   an UpstreamError or a TransportError. *)
C11_UnsupportedMethod ==
    [][\A p \in Procs :
          req'[p].method = "DELETE"
          => /\ sent'[p].catalog = 0
             /\ pc'[p] # "catalog_wait"
             /\ response'[p] = None
             /\ pc'[p] = "failed"
                => raised'[p].detail \notin {"UpstreamError", "TransportError", "InvalidToken"}
             /\ (Leaves(p, "refresh")
                 \/ (Leaves(p, "load") /\ pc'[p] # "auth_wait"
                     /\ raised'[p].detail \notin {"NotFound", "MissingRefreshToken"}))
                => /\ pc'[p] = "failed"
                   /\ raised'[p] = HTTPException(405, "UnsupportedMethod")
                   /\ reply'[p] = HTTPException(405, "UnsupportedMethod")]_vars

\* a DELETE call got its token by a refresh and then failed with 405, no
\* catalog request sent
C11_Witness ==
    \E p \in Procs :
        /\ req[p].method = "DELETE"
        /\ pc[p] = "failed"
        /\ raised[p] = HTTPException(405, "UnsupportedMethod")
        /\ sent[p] = [auth |-> 1, catalog |-> 0]

(* C18: when SPOTIFY_CLIENT_ID or SPOTIFY_CLIENT_SECRET is not set, every
   make_spotify_request call fails with the configuration error (500) before
   the record is loaded: nothing is sent, no record is held, and no step of a
   worker changes the store, whatever the user's record is. *)
C18_ConfigurationErrorFirst ==
    [][~(configured.SPOTIFY_CLIENT_ID /\ configured.SPOTIFY_CLIENT_SECRET)
       => \A p \in Procs :
             /\ pc'[p] \in {"idle", "failed"}
             /\ sent'[p] = NoneSent
             /\ token_record'[p] = None
             /\ (pc'[p] = "failed" /\ CallsGateway(req'[p]))
                => /\ raised'[p] = HTTPException(500, "ConfigurationError")
                   /\ reply'[p].status_code = 500
             /\ pc'[p] # pc[p] => store' = store]_vars

\* only the client secret is missing; a call for a user whose stored token is
\* valid for more than 5 minutes failed with the configuration error, while
\* another user has no record
C18_Witness ==
    \E p \in Procs :
        /\ configured.SPOTIFY_CLIENT_ID /\ ~configured.SPOTIFY_CLIENT_SECRET
        /\ pc[p] = "failed"
        /\ raised[p] = HTTPException(500, "ConfigurationError")
        /\ sent[p] = NoneSent
        /\ \E row \in StoredFor(p) : row.expires_at > now + SkewSeconds
        /\ \E user_id \in Users : RowsOf(store, user_id) = {}

(* C17: refreshes of one user exclude each other in no way: while one worker
   has its refresh request in flight or its commit pending, another worker
   that loads the same user's expiring record sends a refresh request of its
   own; so two workers can both have loaded the same stored record and both
   have a refresh request out before either commits. *)
C17_NoMutualExclusion ==
    [][\A p, q \in Procs :
          (/\ p # q
           /\ pc[q] \in {"auth_wait", "commit"}
           /\ req[q].user_id = req[p].user_id
           /\ Leaves(p, "load")
           /\ \E row \in StoredFor(p) :
                 row.expires_at <= now + SkewSeconds /\ row.refresh_token # "")
          => /\ pc'[p] = "auth_wait"
             /\ sent'[p].auth = 1
             /\ pc'[q] = pc[q]
             /\ store' = store]_vars

\* both workers loaded the same stored record of one user and both have sent
\* a refresh request; neither has committed
C17_Witness ==
    \E p, q \in Procs :
        /\ p # q
        /\ pc[p] = "auth_wait" /\ pc[q] = "auth_wait"
        /\ sent[p].auth = 1 /\ sent[q].auth = 1
        /\ req[p].user_id = req[q].user_id
        /\ token_record[p] = token_record[q]
        /\ token_record[p] \in store

(* C19: in every reachable state the stored access_token and the stored
   refresh_token belong together: the access_token was submitted in the same
   upsert as the stored refresh_token, or granted to a refresh request that
   sent the stored refresh_token. *)
C19_TokensBelongTogether ==
    \A row \in store : row.minted_with = row.refresh_token

(* C12: when the top tracks answered to get_vibe_analysis hold no item with
   an id, the route answers the "no top tracks" message as a success, not an
   error, and goes on to no audio-features request. *)
C12_NoTopTracksSentinel ==
    [][\A p \in Procs :
          (req[p].route = "vibe" /\ req[p].phase = 1 /\ Answered(p)
           /\ LET items == Get(data'[p], "items", <<>>)
              IN  \A i \in DOMAIN items : ~Truthy(Get(items[i], "id", Null)))
          => /\ pc'[p] = "done"
             /\ reply'[p].status_code = 200
             /\ reply'[p].body = [message |-> "NoTopTracks"]
             /\ raised'[p] = None
             /\ req'[p].phase = 1
             /\ sent'[p] = sent[p]]_vars

\* the top tracks had items, none of them with an id, and the route answered
\* the message after its one catalog request
C12_Witness ==
    \E p \in Procs :
        /\ req[p].route = "vibe" /\ req[p].phase = 1
        /\ pc[p] = "done"
        /\ Len(Get(data[p], "items", <<>>)) >= 2
        /\ track_ids[p] = <<>>
        /\ reply[p].body = [message |-> "NoTopTracks"]
        /\ sent[p].catalog = 1

(* C13: when get_vibe_analysis has track ids and the audio-features answer
   holds no entry other than null (or no entry), the route fails with
   NoFeaturesAvailable (404); that failure comes only after the
   audio-features call, which is made only with at least one track id. *)
C13_NoFeaturesAvailable ==
    [][\A p \in Procs :
          /\ (req[p].route = "vibe" /\ req[p].phase = 2 /\ Answered(p)
              /\ LET entries == Get(data'[p], "audio_features", <<>>)
                 IN  \A i \in DOMAIN entries : entries[i] = None)
             => /\ pc'[p] = "failed"
                /\ reply'[p] = HTTPException(404, "NoFeaturesAvailable")
          /\ reply'[p] = HTTPException(404, "NoFeaturesAvailable")
             => /\ req'[p].route = "vibe" /\ req'[p].phase = 2
                /\ track_ids'[p] # <<>>]_vars

\* the route had two track ids, every audio-features entry was null, and it
\* failed with NoFeaturesAvailable
C13_Witness ==
    \E p \in Procs :
        /\ pc[p] = "failed"
        /\ reply[p] = HTTPException(404, "NoFeaturesAvailable")
        /\ Len(track_ids[p]) = 2
        /\ Get(data[p], "audio_features", <<>>) = <<None, None>>

(* C14: the vibe summary counts the audio-features entries that are not null
   in tracks_analyzed, and each of danceability, energy, positivity (from
   valence) and acousticness is the mean of the metric over those entries,
   times 100, rounded to a nearest integer; the three tracks of the worked
   example give 3, 40, 50, 50, 10. *)
C14_VibeSummary ==
    \A p \in Procs :
        (req[p].route = "vibe" /\ req[p].phase = 2 /\ pc[p] = "done")
        => LET entries == Get(data[p], "audio_features", <<>>)
               present == {i \in DOMAIN entries : entries[i] # None}
               n == Cardinality(present)
               summary == reply[p].body
           IN  /\ n > 0
               /\ summary.tracks_analyzed = n
               /\ IsNearest(summary.danceability, Total(entries, present, "danceability"), n)
               /\ IsNearest(summary.energy, Total(entries, present, "energy"), n)
               /\ IsNearest(summary.positivity, Total(entries, present, "valence"), n)
               /\ IsNearest(summary.acousticness, Total(entries, present, "acousticness"), n)
               /\ (n = 3 /\ {entries[i] : i \in present} = ExampleFeatures)
                  => /\ summary.danceability = 40
                     /\ summary.energy = 50
                     /\ summary.positivity = 50
                     /\ summary.acousticness = 10

\* the three tracks of the worked example and a null entry were answered, and
\* the summary is 3, 40, 50, 50, 10
C14_Witness ==
    \E p \in Procs :
        /\ req[p].route = "vibe" /\ req[p].phase = 2 /\ pc[p] = "done"
        /\ LET entries == Get(data[p], "audio_features", <<>>)
           IN  /\ Len(entries) = 4
               /\ \E i \in DOMAIN entries : entries[i] = None
               /\ ExampleFeatures \subseteq {entries[i] : i \in DOMAIN entries}
        /\ reply[p].body = [time_range |-> "medium_term", tracks_analyzed |-> 3,
                            danceability |-> 40, energy |-> 50, positivity |-> 50,
                            acousticness |-> 10]

(* C15: whatever items get_top_items is given, it does not fail; a track
   without artists gets artists "", and a track or artist whose image list
   is absent or empty gets image_url null. *)
C15_EmptyCollectionsDegrade ==
    \A p \in Procs :
        (req[p].route = "top" /\ data[p] # None)
        => LET items == Get(data[p], "items", <<>>)
               tracks == req[p].item_type = "tracks"
               holder(item) == IF tracks THEN Get(item, "album", EmptyObject) ELSE item
           IN  /\ pc[p] = "done"
               /\ reply[p].status_code = 200
               /\ \A i \in DOMAIN items :
                     /\ (tracks /\ Get(items[i], "artists", <<>>) = <<>>)
                        => reply[p].body[i].artists = ""
                     /\ Get(holder(items[i]), "images", <<>>) = <<>>
                        => reply[p].body[i].image_url = Null

(* C16: for tracks and for artists get_top_items answers one cleaned item for
   each item it is given, in the order given: the i-th cleaned item has the
   id of the i-th item. *)
C16_OrderPreserved ==
    \A p \in Procs :
        (req[p].route = "top" /\ data[p] # None)
        => LET items == Get(data[p], "items", <<>>)
           IN  /\ pc[p] = "done"
               /\ Len(reply[p].body) = Len(items)
               /\ \A i \in DOMAIN items : reply[p].body[i].id = Get(items[i], "id", Null)
====
